---- MODULE Spec2Model ----
(***************************************************************************)
(* A model of spotify-api.js: the UserClient manager (managers/UserClient) *)
(* and the Track / LinkedTrack structures.                                 *)
(*                                                                         *)
(* Every method of UserClient is asynchronous: the call issues one request *)
(* to the shared fetch collaborator and suspends; when the fetch promise   *)
(* settles, the method's continuation runs to completion (JavaScript runs  *)
(* one continuation at a time) and settles the promise the caller holds.   *)
(* A call is therefore two steps, Invoke and Settle, and several calls may *)
(* be in flight and complete in any order.  The reaction of the caller to  *)
(* a settled promise is a microtask: it runs (Deliver) before the next     *)
(* fetch completes or the next call is made.                               *)
(***************************************************************************)
EXTENDS Integers, Sequences, FiniteSets, Bags, TLC

VARIABLES
    user,      \* the UserClient's own fields (displayName, id, uri, ...)
    cache,     \* the client's cache: <<type tag, id>> -> serial of the cached DTO, 0 if none
    built,     \* <<type tag, id>> -> how many DTOs were ever constructed for that id
    created,   \* every DTO a list call has returned
    inflight,  \* the bag of calls whose fetch has not settled yet
    last,      \* the call that has just settled (its fetch outcome and its own), until
               \* its caller has taken the outcome
    raw,       \* the raw object about to be passed to a structure's constructor
    track,     \* the Track constructed from raw (undefined before construction)
    linked,    \* the LinkedTrack constructed from raw (undefined before construction)
    frames,    \* active frames of Track's album getter
    got        \* what reading an accessor of the track produced

userVars  == <<user, cache, built, created, inflight, last>>
trackVars == <<raw, track, linked, frames, got>>
vars      == <<user, cache, built, created, inflight, last, raw, track, linked, frames, got>>

----------------------------------------------------------------------------
(* Bounds of the model.                                                    *)

MaxCalls == 2   \* calls in flight at once
MaxIds   == 2   \* ids passed to a variadic method
MaxItems == 2   \* items in one page of a list response
MaxKeys  == 2   \* keys present in a raw track object
MaxStack == 3   \* frames the engine's call stack holds before it overflows

----------------------------------------------------------------------------
(* JavaScript values.  Every value is a record tagged with its type, so    *)
(* that null, undefined, "" and objects can be told apart and compared.    *)

JSNull      == [js |-> "null"]
JSUndefined == [js |-> "undefined"]
Str(s)      == [js |-> "string", s |-> s]
Bool(b)     == [js |-> "boolean", b |-> b]
Num(n)      == [js |-> "number", n |-> n]
Arr(items)  == [js |-> "array", items |-> items]
Obj(props)  == [js |-> "object", props |-> props]
Err(name, message) == [js |-> "error", name |-> name, message |-> message]

\* ToBoolean: the values `!x`, `x || y` and `if (x)` treat as false.
Falsy(v) ==
    \/ v.js \in {"null", "undefined"}
    \/ v.js = "string" /\ v.s = ""
    \/ v.js = "boolean" /\ ~v.b
    \/ v.js = "number" /\ v.n = 0

Truthy(v) == ~Falsy(v)

\* Reading a property of null or undefined throws a TypeError.
Nullish(v) == v.js \in {"null", "undefined"}

\* v.k for a non-nullish v: the property's value, undefined when v has none.
Get(v, k) ==
    IF v.js = "object" /\ k \in DOMAIN v.props THEN v.props[k] ELSE JSUndefined

\* `k in v` for an object v.
Has(v, k) == v.js = "object" /\ k \in DOMAIN v.props

\* A settled promise.
Resolved(v) == [status |-> "resolved", value |-> v]
Rejected(e) == [status |-> "rejected", value |-> e]

----------------------------------------------------------------------------
(* UserClient: construction and patchInfo.                                 *)

\* The fields after `new UserClient(client)`: only `type` has an initializer.
NewUserClient ==
    [ displayName    |-> JSUndefined,
      id             |-> JSUndefined,
      uri            |-> JSUndefined,
      type           |-> Str("user"),
      images         |-> JSUndefined,
      totalFollowers |-> JSUndefined,
      externalURL    |-> JSUndefined,
      product        |-> JSUndefined,
      country        |-> JSUndefined,
      email          |-> JSUndefined,
      explicitContent |-> JSUndefined ]

SpotifyAPIError(message) == Err("SpotifyAPIError", message)

TypeErrorOf(message) == Err("TypeError", message)

\* What `return this` of patchInfo resolves to.
ThisClient == [js |-> "UserClient"]

\* The assignments of patchInfo once the payload passed the guard.
PatchFields(self, data) ==
    LET s1 == [self EXCEPT !.displayName = Get(data, "display_name"),
                           !.id = Get(data, "id"),
                           !.uri = Get(data, "uri"),
                           !.images = Get(data, "images")]
        followers == Get(data, "followers")
    IN
    IF Nullish(followers)
    THEN [self |-> s1, status |-> "rejected",
          value |-> TypeErrorOf("Cannot read properties of undefined (reading 'total')")]
    ELSE LET s2 == [s1 EXCEPT !.totalFollowers = Get(followers, "total"),
                              !.externalURL = Get(data, "external_urls"),
                              !.email = Get(data, "email"),
                              !.product = Get(data, "product"),
                              !.country = Get(data, "country")]
             ec == Get(data, "explicit_content")
             s3 == IF Truthy(ec)
                   THEN [s2 EXCEPT !.explicitContent =
                            Obj([filterEnabled |-> Get(ec, "filter_enabled"),
                                 filterLocked  |-> Get(ec, "filter_locked")])]
                   ELSE s2
         IN [self |-> s3, status |-> "resolved", value |-> ThisClient]

\* patchInfo whose guard tests for null alone (data === null) instead of !data.
PatchInfoNullOnly(self, p) ==
    IF p.status = "rejected"
    THEN [self |-> self, status |-> "rejected", value |-> p.value]
    ELSE IF p.value.js = "null"
    THEN [self |-> self, status |-> "rejected",
          value |-> SpotifyAPIError("Could not load private user data from the user authorized token.")]
    ELSE PatchFields(self, p.value)

\* patchInfo, from the settled fetch('/me') promise p to the new fields and
\* the outcome of the method's own promise.  A rejected fetch rejects the
\* await; nothing catches it.
PatchInfo(self, p) ==
    IF p.status = "rejected"
    THEN [self |-> self, status |-> "rejected", value |-> p.value]
    ELSE IF Falsy(p.value)
    THEN [self |-> self, status |-> "rejected",
          value |-> SpotifyAPIError("Could not load private user data from the user authorized token.")]
    ELSE PatchFields(self, p.value)

----------------------------------------------------------------------------
(* The boolean-array queries and the library mutations: each is            *)
(* fetch(...).then(f), so a rejected fetch passes through unchanged.       *)

\* ids.map(() => false)
AllFalse(ids) == Arr([i \in 1..Len(ids) |-> Bool(FALSE)])

\* followsArtists that catches a failed fetch and answers all-false.
FollowsArtistsSwallow(ids, p) ==
    IF p.status = "rejected" THEN Resolved(AllFalse(ids))
    ELSE Resolved(IF Truthy(p.value) THEN p.value ELSE AllFalse(ids))

\* followsArtists: .then(x => x || ids.map(() => false))
FollowsArtists(ids, p) ==
    IF p.status = "rejected" THEN p
    ELSE Resolved(IF Truthy(p.value) THEN p.value ELSE AllFalse(ids))

\* followsUsers: .then(x => x || ids.map(() => false))
FollowsUsers(ids, p) ==
    IF p.status = "rejected" THEN p
    ELSE Resolved(IF Truthy(p.value) THEN p.value ELSE AllFalse(ids))

\* hasAlbums: .then(x => ids.map(() => false)); the response x is not read.
HasAlbums(ids, p) ==
    IF p.status = "rejected" THEN p
    ELSE Resolved(AllFalse(ids))

\* saveAlbums: .then(x => x != null); loose inequality, so undefined counts as null.
SaveAlbums(ids, p) ==
    IF p.status = "rejected" THEN p
    ELSE Resolved(Bool(~Nullish(p.value)))

\* removeAlbums: .then(x => x != null)
RemoveAlbums(ids, p) ==
    IF p.status = "rejected" THEN p
    ELSE Resolved(Bool(~Nullish(p.value)))

----------------------------------------------------------------------------
(* The cache-aware factory (Cache module) and the list calls.              *)

Tags    == {"playlists", "artists", "tracks", "albums"}
ItemIds == {"a1", "a2"}

\* A DTO instance.  Two constructions never yield the same object: the
\* serial counts the constructions for that tag and id.
DTO(tag, id, serial) == [js |-> "dto", tag |-> tag, id |-> id, serial |-> serial]

\* createCacheStruct: the instance cached under the item's id if there is
\* one, otherwise a new instance, which is stored.  st = [cache, built].
CreateCacheStruct(tag, st, item) ==
    LET id == Get(item, "id").s
        k  == <<tag, id>>
    IN IF st.cache[k] # 0
       THEN [st |-> st, dto |-> DTO(tag, id, st.cache[k]), reused |-> TRUE]
       ELSE LET n == st.built[k] + 1
            IN [st |-> [cache |-> [st.cache EXCEPT ![k] = n],
                        built |-> [st.built EXCEPT ![k] = n]],
                dto |-> DTO(tag, id, n), reused |-> FALSE]

\* createCacheStructArray: the factory applied to each item in order.
RECURSIVE CreateCacheStructArray(_, _, _)
CreateCacheStructArray(tag, st, items) ==
    IF items = <<>> THEN [st |-> st, out |-> <<>>, reused |-> <<>>]
    ELSE LET h == CreateCacheStruct(tag, st, Head(items))
             t == CreateCacheStructArray(tag, h.st, Tail(items))
         IN [st |-> t.st, out |-> <<h.dto>> \o t.out, reused |-> <<h.reused>> \o t.reused]

\* A Saved<Album>: the time it was saved and the album.
SavedItem(addedAt, dto) == [js |-> "saved", addedAt |-> addedAt, item |-> dto]

\* createCacheSavedStructArray: each saved item's album goes through the factory.
RECURSIVE CreateCacheSavedStructArray(_, _, _)
CreateCacheSavedStructArray(tag, st, items) ==
    IF items = <<>> THEN [st |-> st, out |-> <<>>, reused |-> <<>>]
    ELSE LET h == CreateCacheStruct(tag, st, Get(Head(items), "album"))
             t == CreateCacheSavedStructArray(tag, h.st, Tail(items))
         IN [st |-> t.st,
             out |-> <<SavedItem(Get(Head(items), "added_at"), h.dto)>> \o t.out,
             reused |-> <<h.reused>> \o t.reused]

\* items.map(x => new Structure(x)): every item constructed anew, the cache not consulted.
RECURSIVE NewStructArray(_, _, _)
NewStructArray(tag, st, items) ==
    IF items = <<>> THEN [st |-> st, out |-> <<>>, reused |-> <<>>]
    ELSE LET id == Get(Head(items), "id").s
             k  == <<tag, id>>
             n  == st.built[k] + 1
             t  == NewStructArray(tag, [st EXCEPT !.built[k] = n], Tail(items))
         IN [st |-> t.st, out |-> <<DTO(tag, id, n)>> \o t.out, reused |-> <<FALSE>> \o t.reused]

\* What a list call yields: the cache after it and the settled promise.
ListResult(st, q, reused) == [st |-> st, status |-> q.status, value |-> q.value, reused |-> reused]

\* `fetchedData ? createCacheStructArray(tag, client, items) : []` after the await.
ListOf(tag, st, p, items) ==
    IF p.status = "rejected" THEN ListResult(st, p, <<>>)
    ELSE IF Truthy(p.value)
    THEN LET r == CreateCacheStructArray(tag, st, items.items)
         IN ListResult(r.st, Resolved(Arr(r.out)), r.reused)
    ELSE ListResult(st, Resolved(Arr(<<>>)), <<>>)

\* getPlaylists: items are fetchedData.items
GetPlaylists(st, p) == ListOf("playlists", st, p, Get(p.value, "items"))

\* getFollowingArtists: items are fetchedData.artists.items
GetFollowingArtists(st, p) ==
    ListOf("artists", st, p, Get(Get(p.value, "artists"), "items"))

\* getTopTracks without the test of fetchedData: reading .items of null throws.
GetTopTracksUnguarded(st, p) ==
    IF p.status = "rejected" THEN ListResult(st, p, <<>>)
    ELSE IF Nullish(p.value)
    THEN ListResult(st, Rejected(TypeErrorOf("Cannot read properties of null (reading 'items')")), <<>>)
    ELSE ListOf("tracks", st, p, Get(p.value, "items"))

\* getTopTracks: items are fetchedData.items
GetTopTracks(st, p) == ListOf("tracks", st, p, Get(p.value, "items"))

\* getTopArtists that wraps each item itself instead of going through the factory.
GetTopArtistsUncached(st, p) ==
    IF p.status = "rejected" THEN ListResult(st, p, <<>>)
    ELSE IF Truthy(p.value)
    THEN LET r == NewStructArray("artists", st, Get(p.value, "items").items)
         IN ListResult(r.st, Resolved(Arr(r.out)), r.reused)
    ELSE ListResult(st, Resolved(Arr(<<>>)), <<>>)

\* getTopArtists: items are fetchedData.items; the same 'artists' cache as getFollowingArtists
GetTopArtists(st, p) == ListOf("artists", st, p, Get(p.value, "items"))

\* getSavedAlbums: fetchedData ? createCacheSavedStructArray('albums', client, items) : []
GetSavedAlbums(st, p) ==
    IF p.status = "rejected" THEN ListResult(st, p, <<>>)
    ELSE IF Truthy(p.value)
    THEN LET r == CreateCacheSavedStructArray("albums", st, Get(p.value, "items").items)
         IN ListResult(r.st, Resolved(Arr(r.out)), r.reused)
    ELSE ListResult(st, Resolved(Arr(<<>>)), <<>>)

----------------------------------------------------------------------------
(* The two methods that delegate to other managers, passing this.id.       *)

\* client.playlists.create(userId, playlist): one POST; null when nothing
\* comes back, the created playlist otherwise.
PlaylistsCreate(userId, p) ==
    IF p.status = "rejected" THEN p
    ELSE IF Truthy(p.value) THEN Resolved([js |-> "playlist", owner |-> userId])
    ELSE Resolved(JSNull)

\* client.users.followsPlaylist(playlistID, userId): a boolean array with one
\* flag per queried user, all-false when nothing comes back.
UsersFollowsPlaylist(userId, p) ==
    IF p.status = "rejected" THEN p
    ELSE IF Truthy(p.value) THEN p
    ELSE Resolved(Arr(<<Bool(FALSE)>>))

\* createPlaylist returns the manager's promise as it is.
CreatePlaylist(userId, p) == PlaylistsCreate(userId, p)

\* followsPlaylist: .then(x => x[0] || false)
FollowsPlaylist(userId, p) ==
    LET q == UsersFollowsPlaylist(userId, p)
    IN IF q.status = "rejected" THEN q
       ELSE LET x0 == IF Len(q.value.items) >= 1 THEN q.value.items[1] ELSE JSUndefined
            IN Resolved(IF Truthy(x0) THEN x0 ELSE Bool(FALSE))

----------------------------------------------------------------------------
(* Calls in flight and the fetch collaborator.                             *)

ProfileMethods == {"patchInfo", "createPlaylist", "followsPlaylist"}
ListMethods    == {"getPlaylists", "getFollowingArtists", "getTopTracks", "getTopArtists"}
QueryMethods   == {"followsArtists", "followsUsers", "hasAlbums",
                   "getSavedAlbums", "saveAlbums", "removeAlbums"}
Methods        == ProfileMethods \cup ListMethods \cup QueryMethods

\* The methods declared with a rest parameter (...ids).
Variadic  == {"followsArtists", "followsUsers", "hasAlbums", "saveAlbums", "removeAlbums"}
\* The methods that hand this.id to another manager.
Delegates == {"createPlaylist", "followsPlaylist"}

\* The code never looks into an id (it only joins them), so id lists differ by length alone.
SomeIds == <<"id1", "id2", "id3", "id4">>
IdLists == {SubSeq(SomeIds, 1, n) : n \in 0..MaxIds}
ArgsOf(m) == IF m \in Variadic THEN IdLists ELSE {<<>>}

\* The errors the transport can reject with.
TransportErrors == {Err("FetchError", "E1"), Err("FetchError", "E2")}

\* '/me' payloads: a private user with every field, a user whose token lacks
\* the private scopes (no email, product, country, explicit_content), and a
\* payload without the followers sub-object.
User1 ==
    Obj([display_name |-> Str("Ann"), id |-> Str("u1"), uri |-> Str("spotify:user:u1"),
         images |-> Arr(<<Str("img1")>>), followers |-> Obj([total |-> Num(7)]),
         external_urls |-> Obj([spotify |-> Str("url1")]), email |-> Str("ann@x"),
         product |-> Str("premium"), country |-> Str("SE"),
         explicit_content |-> Obj([filter_enabled |-> Bool(TRUE), filter_locked |-> Bool(FALSE)])])
User2 ==
    Obj([display_name |-> JSNull, id |-> Str("u2"), uri |-> Str("spotify:user:u2"),
         images |-> Arr(<<>>), followers |-> Obj([total |-> Num(0)]),
         external_urls |-> Obj([spotify |-> Str("url2")])])
User3 ==
    Obj([display_name |-> Str("Cy"), id |-> Str("u3"), uri |-> Str("spotify:user:u3"),
         images |-> Arr(<<Str("img3")>>)])

\* What an empty-but-successful response resolves to: null, or the empty body.
Nothing == {JSNull, Str("")}

RawItem(id) == Obj([id |-> Str(id)])
ItemLists == UNION {[1..n -> ItemIds] : n \in 0..MaxItems}
RawItems(ids) == Arr([i \in 1..Len(ids) |-> RawItem(ids[i])])
SavedRawItems(ids) ==
    Arr([i \in 1..Len(ids) |-> Obj([added_at |-> Str("2021-01-01"), album |-> RawItem(ids[i])])])
FlagLists(n) == {Arr([i \in 1..n |-> Bool(f[i])]) : f \in [1..n -> BOOLEAN]}

\* The payloads the endpoint behind call c can answer with.
Payloads(c) ==
    CASE c.method = "patchInfo" -> Nothing \cup {User1, User2, User3}
      [] c.method = "getFollowingArtists" ->
            {JSNull} \cup {Obj([artists |-> Obj([items |-> RawItems(l)])]) : l \in ItemLists}
      [] c.method \in ListMethods \ {"getFollowingArtists"} ->
            {JSNull} \cup {Obj([items |-> RawItems(l)]) : l \in ItemLists}
      [] c.method = "getSavedAlbums" ->
            {JSNull} \cup {Obj([items |-> SavedRawItems(l)]) : l \in ItemLists}
      [] c.method \in {"followsArtists", "followsUsers", "hasAlbums"} ->
            {JSNull} \cup FlagLists(Len(c.ids))
      [] c.method \in {"saveAlbums", "removeAlbums"} -> Nothing
      [] c.method = "createPlaylist" -> {JSNull, Obj([id |-> Str("p1")])}
      [] c.method = "followsPlaylist" -> {JSNull} \cup FlagLists(1)

\* How the fetch of call c can settle.
Outcomes(c) ==
    {Rejected(e) : e \in TransportErrors} \cup {Resolved(v) : v \in Payloads(c)}

\* How it settles when the service answers nothing: a failure or null.
OutageOutcomes(c) ==
    {Rejected(e) : e \in TransportErrors} \cup {Resolved(JSNull)}

NoCall == [method |-> "none"]

\* The continuation of call c on the settled fetch p.
Run(c, p) ==
    LET st == [cache |-> cache, built |-> built]
        plain(q) == [self |-> user, st |-> st, status |-> q.status, value |-> q.value,
                     reused |-> <<>>]
        list(r) == [self |-> user, st |-> r.st, status |-> r.status, value |-> r.value,
                    reused |-> r.reused]
    IN CASE c.method = "patchInfo" ->
              LET r == PatchInfo(user, p)
              IN [self |-> r.self, st |-> st, status |-> r.status, value |-> r.value,
                  reused |-> <<>>]
         [] c.method = "createPlaylist"      -> plain(CreatePlaylist(c.userId, p))
         [] c.method = "followsPlaylist"     -> plain(FollowsPlaylist(c.userId, p))
         [] c.method = "followsArtists"      -> plain(FollowsArtists(c.ids, p))
         [] c.method = "followsUsers"        -> plain(FollowsUsers(c.ids, p))
         [] c.method = "hasAlbums"           -> plain(HasAlbums(c.ids, p))
         [] c.method = "saveAlbums"          -> plain(SaveAlbums(c.ids, p))
         [] c.method = "removeAlbums"        -> plain(RemoveAlbums(c.ids, p))
         [] c.method = "getPlaylists"        -> list(GetPlaylists(st, p))
         [] c.method = "getFollowingArtists" -> list(GetFollowingArtists(st, p))
         [] c.method = "getTopTracks"        -> list(GetTopTracks(st, p))
         [] c.method = "getTopArtists"       -> list(GetTopArtists(st, p))
         [] c.method = "getSavedAlbums"      -> list(GetSavedAlbums(st, p))

\* The DTOs in the array a list call resolved to.
Returned(m, r) ==
    IF r.status = "resolved" /\ m \in ListMethods
    THEN {r.value.items[i] : i \in 1..Len(r.value.items)}
    ELSE IF r.status = "resolved" /\ m = "getSavedAlbums"
    THEN {r.value.items[i].item : i \in 1..Len(r.value.items)}
    ELSE {}

\* Method m is called with ids: it issues its one request and suspends.
\* createPlaylist and followsPlaylist read this.id at the call.
Invoke(m, ids) ==
    /\ last = NoCall
    /\ BagCardinality(inflight) < MaxCalls
    /\ inflight' = inflight (+) SetToBag({[method |-> m, ids |-> ids,
                        userId |-> IF m \in Delegates THEN user.id ELSE JSUndefined,
                        fetches |-> 1]})
    /\ UNCHANGED <<user, cache, built, created, last>>
    /\ UNCHANGED trackVars

\* The fetch of call c settles as p and the call's continuation runs.
Settle(c, p) ==
    /\ last = NoCall
    /\ BagIn(c, inflight)
    /\ inflight' = inflight (-) SetToBag({c})
    /\ LET r == Run(c, p)
       IN /\ user' = r.self
          /\ cache' = r.st.cache
          /\ built' = r.st.built
          /\ created' = created \cup Returned(c.method, r)
          /\ last' = [method |-> c.method, ids |-> c.ids, userId |-> c.userId,
                      fetches |-> c.fetches, fetched |-> p,
                      status |-> r.status, value |-> r.value, reused |-> r.reused]
    /\ UNCHANGED trackVars

\* The caller of the call that has just settled takes its outcome.
Deliver ==
    /\ last # NoCall
    /\ last' = NoCall
    /\ UNCHANGED <<user, cache, built, created, inflight>>
    /\ UNCHANGED trackVars

----------------------------------------------------------------------------
(* The Track and LinkedTrack structures.                                   *)

\* The keys of a raw track object of the Web API.
TrackKeys ==
    {"available_markets", "disc_number", "duration_ms", "explicit", "external_ids",
     "external_urls", "href", "id", "name", "popularity", "preview_url", "track_number",
     "type", "uri", "is_playable", "restrictions", "is_local", "linked_from",
     "album", "artists"}

\* The values a key of the raw object may carry.
RawValues == {Str("v1"), Bool(TRUE), Bool(FALSE)}

\* new LinkedTrack(data)
LinkedTrackCtor(data) ==
    [ data         |-> data,
      externalUrls |-> Get(data, "external_urls"),
      href         |-> Get(data, "href"),
      id           |-> Get(data, "id"),
      type         |-> Get(data, "type"),
      uri          |-> Get(data, "uri") ]

\* new Track(data) reading the duration from data.duration instead of data.duration_ms.
TrackCtorWrongKey(data) ==
    [ data             |-> data,
      availableMarkets |-> Get(data, "available_markets"),
      discNumber       |-> Get(data, "disc_number"),
      duration         |-> Get(data, "duration"),
      explicit         |-> Get(data, "explicit"),
      externalIds      |-> Get(data, "external_ids"),
      externalUrls     |-> Get(data, "external_urls"),
      href             |-> Get(data, "href"),
      id               |-> Get(data, "id"),
      name             |-> Get(data, "name"),
      popularity       |-> Get(data, "popularity"),
      previewUrl       |-> Get(data, "preview_url"),
      trackNumber      |-> Get(data, "track_number"),
      type             |-> Get(data, "type"),
      uri              |-> Get(data, "uri"),
      playable         |-> Get(data, "is_playable"),
      restrictions     |-> Get(data, "restrictions"),
      local            |-> Bool(Truthy(Get(data, "is_local"))),
      linkedFrom       |-> IF Has(data, "linked_from") THEN Get(data, "linked_from")
                           ELSE JSUndefined ]

\* new Track(data).  local is Boolean(data.is_local); linkedFrom is assigned
\* only when the key is in data, and reads as undefined otherwise.
TrackCtor(data) ==
    [ data             |-> data,
      availableMarkets |-> Get(data, "available_markets"),
      discNumber       |-> Get(data, "disc_number"),
      duration         |-> Get(data, "duration_ms"),
      explicit         |-> Get(data, "explicit"),
      externalIds      |-> Get(data, "external_ids"),
      externalUrls     |-> Get(data, "external_urls"),
      href             |-> Get(data, "href"),
      id               |-> Get(data, "id"),
      name             |-> Get(data, "name"),
      popularity       |-> Get(data, "popularity"),
      previewUrl       |-> Get(data, "preview_url"),
      trackNumber      |-> Get(data, "track_number"),
      type             |-> Get(data, "type"),
      uri              |-> Get(data, "uri"),
      playable         |-> Get(data, "is_playable"),
      restrictions     |-> Get(data, "restrictions"),
      local            |-> Bool(Truthy(Get(data, "is_local"))),
      linkedFrom       |-> IF Has(data, "linked_from") THEN Get(data, "linked_from")
                           ELSE JSUndefined ]

\* new SimplifiedAlbum(data)
SimplifiedAlbum(data) == [js |-> "SimplifiedAlbum", data |-> data]

Returns(accessor, v) == [accessor |-> accessor, status |-> "returned", value |-> v]
Throws(accessor, e)  == [accessor |-> accessor, status |-> "threw", value |-> e]

\* The server composes the raw object: key k is given value v.
SetKey(k, v) ==
    /\ track = JSUndefined /\ linked = JSUndefined
    /\ k \notin DOMAIN raw.props
    /\ Cardinality(DOMAIN raw.props) < MaxKeys
    /\ raw' = Obj((k :> v) @@ raw.props)
    /\ UNCHANGED <<track, linked, frames, got>>
    /\ UNCHANGED userVars

\* new Track(raw)
NewTrack ==
    /\ track = JSUndefined
    /\ track' = TrackCtor(raw)
    /\ UNCHANGED <<raw, linked, frames, got>>
    /\ UNCHANGED userVars

\* new LinkedTrack(raw)
NewLinkedTrack ==
    /\ linked = JSUndefined
    /\ linked' = LinkedTrackCtor(raw)
    /\ UNCHANGED <<raw, track, frames, got>>
    /\ UNCHANGED userVars

\* track.album is read: the getter is entered.
ReadAlbum ==
    /\ track # JSUndefined /\ frames = 0 /\ got = JSUndefined
    /\ frames' = 1
    /\ UNCHANGED <<raw, track, linked, got>>
    /\ UNCHANGED userVars

\* Inside the getter the argument of `new SimplifiedAlbum(this.album)` is
\* evaluated first, and this.album is the getter itself: one more frame.
AlbumGetterEnters ==
    /\ frames >= 1 /\ frames < MaxStack
    /\ frames' = frames + 1
    /\ UNCHANGED <<raw, track, linked, got>>
    /\ UNCHANGED userVars

\* The stack is full: the engine throws a RangeError, which unwinds every frame.
AlbumGetterOverflows ==
    /\ frames >= 1 /\ frames = MaxStack
    /\ frames' = 0
    /\ got' = Throws("album", Err("RangeError", "Maximum call stack size exceeded"))
    /\ UNCHANGED <<raw, track, linked>>
    /\ UNCHANGED userVars

\* track.artists is read: this.data.map(...), and this.data is the raw
\* object, which has no map method.
ReadArtists ==
    /\ track # JSUndefined /\ frames = 0 /\ got = JSUndefined
    /\ got' = IF track.data.js = "array"
              THEN Returns("artists", Arr(track.data.items))
              ELSE Throws("artists", TypeErrorOf("this.data.map is not a function"))
    /\ UNCHANGED <<raw, track, linked, frames>>
    /\ UNCHANGED userVars

----------------------------------------------------------------------------
(* Specifications.                                                         *)

Init ==
    /\ user = NewUserClient
    /\ cache = [k \in Tags \X ItemIds |-> 0]
    /\ built = [k \in Tags \X ItemIds |-> 0]
    /\ created = {}
    /\ inflight = EmptyBag
    /\ last = NoCall
    /\ raw = Obj(<<>>)
    /\ track = JSUndefined
    /\ linked = JSUndefined
    /\ frames = 0
    /\ got = JSUndefined

\* The profile methods: patchInfo, createPlaylist, followsPlaylist.
NextProfile ==
    \/ \E m \in ProfileMethods : \E ids \in ArgsOf(m) : Invoke(m, ids)
    \/ \E c \in BagToSet(inflight) : \E p \in Outcomes(c) : Settle(c, p)
    \/ Deliver

SpecProfile == Init /\ [][NextProfile]_vars

\* The list calls that go through the cache.
NextLists ==
    \/ \E m \in ListMethods : \E ids \in ArgsOf(m) : Invoke(m, ids)
    \/ \E c \in BagToSet(inflight) : \E p \in Outcomes(c) : Settle(c, p)
    \/ Deliver

SpecLists == Init /\ [][NextLists]_vars

\* The follow queries and the saved-albums library.
NextQueries ==
    \/ \E m \in QueryMethods : \E ids \in ArgsOf(m) : Invoke(m, ids)
    \/ \E c \in BagToSet(inflight) : \E p \in Outcomes(c) : Settle(c, p)
    \/ Deliver

SpecQueries == Init /\ [][NextQueries]_vars

\* Every method, against a service that answers nothing: each fetch
\* resolves to null or is rejected by the transport.
NextOutage ==
    \/ \E m \in Methods : \E ids \in ArgsOf(m) : Invoke(m, ids)
    \/ \E c \in BagToSet(inflight) : \E p \in OutageOutcomes(c) : Settle(c, p)
    \/ Deliver

SpecOutage == Init /\ [][NextOutage]_vars

\* The structures: a raw object is composed, constructed from, and read.
NextTrack ==
    \/ \E k \in TrackKeys : \E v \in RawValues : SetKey(k, v)
    \/ NewTrack
    \/ NewLinkedTrack
    \/ ReadAlbum
    \/ AlbumGetterEnters
    \/ AlbumGetterOverflows
    \/ ReadArtists

SpecTrack == Init /\ [][NextTrack]_vars

\* The whole program.
Next ==
    \/ \E m \in Methods : \E ids \in ArgsOf(m) : Invoke(m, ids)
    \/ \E c \in BagToSet(inflight) : \E p \in Outcomes(c) : Settle(c, p)
    \/ Deliver
    \/ NextTrack

Spec == Init /\ [][Next]_vars

----------------------------------------------------------------------------
(* The claims.                                                             *)

JustSettled(ms) == last # NoCall /\ last.method \in ms

IsAPIError(v) == v.js = "error" /\ v.name = "SpotifyAPIError"

\* C1: followsArtists, followsUsers and hasAlbums resolve to an array with
\* one boolean per queried id, the i-th being the flag the server reported
\* for the i-th id, and all false when the fetch resolved to null.
C1_FlagsReflectServer ==
    (JustSettled({"followsArtists", "followsUsers", "hasAlbums"})
        /\ last.fetched.status = "resolved")
    => /\ last.status = "resolved"
       /\ last.value.js = "array"
       /\ Len(last.value.items) = Len(last.ids)
       /\ \A i \in 1..Len(last.ids) :
            last.value.items[i] =
                IF last.fetched.value = JSNull THEN Bool(FALSE)
                ELSE last.fetched.value.items[i]

\* C2: when the fetch resolves to null, no method other than patchInfo
\* raises; the list methods (getPlaylists, getFollowingArtists, getTopTracks,
\* getTopArtists, getSavedAlbums) resolve to an empty array, and saveAlbums
\* and removeAlbums resolve to false.
C2_NullYieldsDefault ==
    (last # NoCall /\ last.fetched = Resolved(JSNull) /\ last.method # "patchInfo")
    => /\ last.status = "resolved"
       /\ last.method \in ListMethods \cup {"getSavedAlbums"} => last.value = Arr(<<>>)
       /\ last.method \in {"saveAlbums", "removeAlbums"} => last.value = Bool(FALSE)

\* C2's case: getTopTracks has settled on a null response.
C2_Witness ==
    /\ JustSettled({"getTopTracks"})
    /\ last.fetched = Resolved(JSNull)
    /\ last.value = Arr(<<>>)

\* C3 as stated: patchInfo raises SpotifyAPIError, with a non-empty message,
\* exactly when the fetch of '/me' resolved to null, and for no non-null payload.
C3_ErrorOnlyOnNull ==
    (JustSettled({"patchInfo"}) /\ last.fetched.status = "resolved")
    => /\ (last.status = "rejected" /\ IsAPIError(last.value)) <=> last.fetched.value = JSNull
       /\ IsAPIError(last.value) => last.value.message # ""

\* C3, amended: patchInfo raises SpotifyAPIError, with a non-empty message,
\* exactly when the fetch of '/me' resolved to a falsy value (null, undefined,
\* the empty string, false, 0), and for no truthy payload.
C3_ErrorOnlyOnFalsy ==
    (JustSettled({"patchInfo"}) /\ last.fetched.status = "resolved")
    => /\ (last.status = "rejected" /\ IsAPIError(last.value)) <=> Falsy(last.fetched.value)
       /\ IsAPIError(last.value) => last.value.message # ""

\* C3's case: '/me' resolved to the empty string and patchInfo raised the API error.
C3_Witness ==
    /\ JustSettled({"patchInfo"})
    /\ last.fetched = Resolved(Str(""))
    /\ last.status = "rejected" /\ IsAPIError(last.value)

\* C4: whatever list calls were made and in whatever order they completed,
\* there is one DTO instance per type and id: every DTO a list call returned
\* for an id is the one instance the cache holds for it, DTOs returned for
\* the same id are identical, and DTOs for different ids are distinct.
C4_OneInstancePerId ==
    /\ \A d \in created : cache[<<d.tag, d.id>>] = d.serial
    /\ \A d1, d2 \in created :
          /\ (d1.tag = d2.tag /\ d1.id = d2.id) => d1 = d2
          /\ d1.id # d2.id => d1 # d2
    /\ (JustSettled(ListMethods) /\ last.status = "resolved")
       => \A i \in 1..Len(last.value.items) :
             LET d == last.value.items[i] IN d \in created /\ built[<<d.tag, d.id>>] = 1

\* C4's case: getTopArtists completed while another call was still in flight
\* and returned an artist that an earlier call had already created.
C4_Witness ==
    /\ JustSettled({"getTopArtists"})
    /\ last.status = "resolved"
    /\ \E i \in 1..Len(last.reused) : last.reused[i]
    /\ BagCardinality(inflight) >= 1
    /\ \E d1, d2 \in created : d1.id # d2.id

\* The value explicitContent has when built from payload d, undefined when d carries none.
ExplicitContentOf(d) ==
    IF Has(d, "explicit_content")
    THEN Obj([filterEnabled |-> Get(Get(d, "explicit_content"), "filter_enabled"),
              filterLocked  |-> Get(Get(d, "explicit_content"), "filter_locked")])
    ELSE JSUndefined

\* C5: after a successful patchInfo every profile field equals the value
\* the latest '/me' response carries; none keeps a value of an earlier response.
C5_FieldsFromLatestResponse ==
    (JustSettled({"patchInfo"}) /\ last.status = "resolved")
    => LET d == last.fetched.value
       IN /\ user.displayName = Get(d, "display_name")
          /\ user.id = Get(d, "id")
          /\ user.uri = Get(d, "uri")
          /\ user.images = Get(d, "images")
          /\ user.totalFollowers = Get(Get(d, "followers"), "total")
          /\ user.externalURL = Get(d, "external_urls")
          /\ user.email = Get(d, "email")
          /\ user.product = Get(d, "product")
          /\ user.country = Get(d, "country")
          /\ user.explicitContent = ExplicitContentOf(d)

\* C6: when the fetch rejects with an error, the method rejects with that
\* same error, and it has invoked fetch exactly once.
C6_TransportErrorPropagates ==
    /\ \A c \in BagToSet(inflight) : c.fetches = 1
    /\ (last # NoCall /\ last.fetched.status = "rejected")
       => /\ last.status = "rejected"
          /\ last.value = last.fetched.value
          /\ last.fetches = 1

\* C6's case: the fetch of followsArtists was rejected with E2.
C6_Witness ==
    /\ JustSettled({"followsArtists"})
    /\ last.fetched = Rejected(Err("FetchError", "E2"))
    /\ last.status = "rejected"

\* The raw key each exposed field of a Track is named after.
TrackFieldKey ==
    [ availableMarkets |-> "available_markets", discNumber |-> "disc_number",
      duration |-> "duration_ms", explicit |-> "explicit", externalIds |-> "external_ids",
      externalUrls |-> "external_urls", href |-> "href", id |-> "id", name |-> "name",
      popularity |-> "popularity", previewUrl |-> "preview_url",
      trackNumber |-> "track_number", type |-> "type", uri |-> "uri",
      playable |-> "is_playable", restrictions |-> "restrictions",
      local |-> "is_local", linkedFrom |-> "linked_from" ]

\* The raw key each exposed field of a LinkedTrack is named after.
LinkedTrackFieldKey ==
    [ externalUrls |-> "external_urls", href |-> "href", id |-> "id",
      type |-> "type", uri |-> "uri" ]

\* C7 as stated: every exposed field of a Track and of a LinkedTrack equals
\* the value of its key in the raw object, and is undefined when the key is absent.
C7_FieldsVerbatim ==
    /\ track # JSUndefined
       => \A f \in DOMAIN TrackFieldKey : track[f] = Get(raw, TrackFieldKey[f])
    /\ linked # JSUndefined
       => \A f \in DOMAIN LinkedTrackFieldKey : linked[f] = Get(raw, LinkedTrackFieldKey[f])

\* C7, amended: every exposed field other than Track.local equals the value
\* of its key in the raw object, and is undefined when the key is absent;
\* local is the boolean conversion of is_local: true when is_local is
\* truthy, false otherwise, and so false (not undefined) when the key is absent.
C7_FieldsVerbatimButLocal ==
    /\ track # JSUndefined
       => /\ \A f \in DOMAIN TrackFieldKey \ {"local"} :
                track[f] = Get(raw, TrackFieldKey[f])
          /\ track.local \in {Bool(TRUE), Bool(FALSE)}
          /\ track.local = Bool(TRUE) <=> Truthy(Get(raw, "is_local"))
    /\ linked # JSUndefined
       => \A f \in DOMAIN LinkedTrackFieldKey : linked[f] = Get(raw, LinkedTrackFieldKey[f])

\* C7's case: a Track and a LinkedTrack constructed from a raw object that
\* carries duration_ms and no is_local.
C7_Witness ==
    /\ track # JSUndefined /\ linked # JSUndefined
    /\ Has(raw, "duration_ms") /\ ~Has(raw, "is_local")
    /\ track.local = Bool(FALSE)

\* C8: reading the album accessor of a Track does not re-enter the accessor,
\* and it ends by returning the SimplifiedAlbum of the raw object's album.
C8_AlbumAccessorReturns ==
    /\ frames <= 1
    /\ (got # JSUndefined /\ got.accessor = "album")
       => got = Returns("album", SimplifiedAlbum(Get(raw, "album")))

\* C9: a patchInfo that ends by raising leaves every field of the
\* UserClient as it was before the call.
C9_AllOrNothing ==
    [][(last = NoCall /\ last' # NoCall /\ last'.method = "patchInfo"
            /\ last'.status = "rejected")
        => user' = user]_vars

\* C10: createPlaylist and followsPlaylist never forward an undefined user id.
C10_UserIdDefined ==
    /\ \A c \in BagToSet(inflight) : c.method \in Delegates => c.userId # JSUndefined
    /\ JustSettled(Delegates) => last.userId # JSUndefined

====
